---- MODULE Spec2Model ----
(***************************************************************************)
(* Model of the receipt-scan pipeline of image-scan-vision: the upload /   *)
(* scan / OCR-verification polling / points-generation / points polling    *)
(* orchestration of components/ImageUpload (src/unnamed/part_001) and the  *)
(* request helpers of hooks/requests (src/unnamed/part_000).               *)
(***************************************************************************)
EXTENDS Integers, Sequences, FiniteSets, TLC

(***************************************************************************)
(* Program constants.                                                      *)
(***************************************************************************)
OcrPollMs == 1000
OcrTimeoutMs == 120000
PointsPollMs == 5000
\* the two minutes the earlier revision of startPointsPolling allows
PointsDeadlineMs == 120000

\* the size limit handleFiles enforces, and the locals of convertToJpg;
\* quality is kept in hundredths
BYTES_5MB == 5 * 1024 * 1024
TARGET_SIZE == 6 * 1024 * 1024
MAX_DIMENSION == 2048
maxAttempts == 8
InitialQuality == 90
QualityStep == 15
MinQuality == 50
QualityThreshold == 80
QualityRecover == 10
\* scaleFactor 0.8, in tenths
ScaleTenths == 8

(***************************************************************************)
(* Bounds of the model.                                                    *)
(***************************************************************************)
\* startOcrPolling invocations on the entry (the first one and the retries)
MaxOcrRuns == 3
\* startPointsPolling invocations on the entry
MaxPointsRuns == 2
\* interval callbacks (of all polling runs together) whose verify request is
\* followed in flight; the requests of the other callbacks fail (OCR) or
\* answer "not generated yet" (points) at once and leave the entry as it is
MaxRequests == 2
\* members of a JSON object text handed to validateOcrData
MaxMembers == 2
\* interval callbacks of the first OCR polling run whose verify request is
\* answered with an error status at once, before any request is followed
MaxQuietTicks == 2
\* files selected in a session (object URLs created by handleFiles)
MaxUrls == 2
\* clicks on the submit button in a session
MaxSubmissions == 2
\* milliseconds the clock advances in a session
MaxClock == 1

(***************************************************************************)
(* JavaScript values.                                                      *)
(***************************************************************************)
\* null of a string-typed field (entry.error)
JsNull == "<null>"
\* no identifier (undefined image_id / scan_id / transactionId)
NoId == "<undefined>"
\* the token of a closure that is gone
NoToken == ""
\* values of the token field
Tokens == {"tokenA", "tokenB"}

\* entry.image and previewUrl: null, an object URL (blob:...) or a data URL
\* holding the bytes of the blob the object URL u stood for
INull == [k |-> "null", u |-> 0]
BlobUrl(u) == [k |-> "blob", u |-> u]
DataUrl(u) == [k |-> "data", u |-> u]

\* entry.points: undefined, null or a number
PUndefined == [k |-> "undefined", n |-> 0]
PNull == [k |-> "null", n |-> 0]
PNumber(n) == [k |-> "number", n |-> n]

\* JSON values: null, strings, numbers (by their literal), flat objects
JNull == [t |-> "null", v |-> ""]
JUndefined == [t |-> "undefined", v |-> ""]
JStr(s) == [t |-> "str", v |-> s]
JNum(s) == [t |-> "num", v |-> s]
JObj(f) == [t |-> "obj", v |-> f]
\* a text kept as a string value (entry.data after a parse failure)
JText(toks) == [t |-> "text", v |-> toks]

(***************************************************************************)
(* Texts are token sequences; JSONparse is a parser of the JSON subset     *)
(* made of null, string and number literals and flat objects.              *)
(***************************************************************************)
Tok(k, v) == [k |-> k, v |-> v]
LBrace == Tok("{", "")
RBrace == Tok("}", "")
Colon == Tok(":", "")
Comma == Tok(",", "")
NullTok == Tok("null", "")
StrTok(s) == Tok("str", s)
NumTok(s) == Tok("num", s)
\* an unquoted word such as hello: not a JSON token
WordTok(s) == Tok("word", s)

IsAtom(tok) == tok.k \in {"null", "str", "num"}
AtomValue(tok) == [t |-> tok.k, v |-> tok.v]

ParseFail == [ok |-> FALSE, val |-> JUndefined]
ParseOk(v) == [ok |-> TRUE, val |-> v]

\* obj with key set to val (a repeated key keeps the last value)
SetMember(f, key, val) ==
  [k \in (DOMAIN f) \cup {key} |-> IF k = key THEN val ELSE f[k]]

RECURSIVE ParseMembers(_, _, _)
\* toks[i] is expected to start a member  "key" : atom  followed by , or }
ParseMembers(toks, i, acc) ==
  IF i + 3 > Len(toks) THEN ParseFail
  ELSE IF ~(toks[i].k = "str" /\ toks[i + 1] = Colon /\ IsAtom(toks[i + 2]))
    THEN ParseFail
  ELSE LET acc2 == SetMember(acc, toks[i].v, AtomValue(toks[i + 2]))
       IN  IF toks[i + 3] = RBrace
             THEN IF i + 3 = Len(toks) THEN ParseOk(JObj(acc2)) ELSE ParseFail
           ELSE IF toks[i + 3] = Comma
             THEN ParseMembers(toks, i + 4, acc2)
           ELSE ParseFail

JSONparse(toks) ==
  IF Len(toks) = 1 /\ IsAtom(toks[1]) THEN ParseOk(AtomValue(toks[1]))
  ELSE IF Len(toks) = 2 /\ toks[1] = LBrace /\ toks[2] = RBrace
    THEN ParseOk(JObj(<<>>))
  ELSE IF Len(toks) >= 2 /\ toks[1] = LBrace
    THEN ParseMembers(toks, 2, <<>>)
  ELSE ParseFail

\* Object.values(v): the own enumerable values; of a string its characters
\* (never null), of a number none.  Object.values(null) throws a TypeError.
ObjectValuesThrows(v) == v.t \in {"null", "undefined"}
ObjectValues(v) == IF v.t = "obj" THEN {v.v[k] : k \in DOMAIN v.v} ELSE {}

\* v.key, undefined when v has no such property
GetProp(v, key) ==
  IF v.t = "obj" /\ key \in DOMAIN v.v THEN v.v[key] ELSE JUndefined

\* JavaScript truthiness
Truthy(v) ==
  CASE v.t = "null" -> FALSE
    [] v.t = "undefined" -> FALSE
    [] v.t = "str" -> v.v # ""
    [] v.t = "num" -> v.v # "0"
    [] OTHER -> TRUE

validateOcrDataNoNullCheck(text) ==
  LET p == JSONparse(text)
  IN  IF ~p.ok \/ ObjectValuesThrows(p.val)
        THEN [isValid |-> FALSE, parsedData |-> JText(text)]
        ELSE [isValid |-> Truthy(GetProp(p.val, "emitente_cnpj")),
              parsedData |-> p.val]

validateOcrData(text) ==
  LET p == JSONparse(text)
  IN  IF ~p.ok
        THEN \* JSON.parse threw: catch
             [isValid |-> FALSE, parsedData |-> JText(text)]
      ELSE IF ObjectValuesThrows(p.val)
        THEN \* Object.values(parsedData) threw: same catch
             [isValid |-> FALSE, parsedData |-> JText(text)]
      ELSE [isValid |-> /\ \A val \in ObjectValues(p.val) :
                             ~(val = JNull \/ val = JUndefined)
                        /\ Truthy(GetProp(p.val, "emitente_cnpj")),
            parsedData |-> p.val]

(***************************************************************************)
(* The texts validateOcrData is applied to: the renderings of the flat     *)
(* objects of at most MaxMembers members, their proper prefixes (which do  *)
(* not parse), and single literals.                                        *)
(***************************************************************************)
Keys == {"emitente_cnpj", "total"}
AtomToks == {NullTok, StrTok("123"), StrTok("10"), StrTok(""), NumTok("0")}
Members == Keys \X AtomToks

RenderMember(m) == <<StrTok(m[1]), Colon, m[2]>>

RECURSIVE RenderMembers(_)
RenderMembers(ms) ==
  IF Len(ms) = 0 THEN <<>>
  ELSE IF Len(ms) = 1 THEN RenderMember(ms[1])
  ELSE RenderMember(ms[1]) \o <<Comma>> \o RenderMembers(Tail(ms))

Render(ms) == <<LBrace>> \o RenderMembers(ms) \o <<RBrace>>

MemberSeqs == UNION {[1..n -> Members] : n \in 0..MaxMembers}
ObjectTexts == {Render(ms) : ms \in MemberSeqs}
PrefixTexts ==
  UNION {{SubSeq(t, 1, n) : n \in 1..(Len(t) - 1)} : t \in ObjectTexts}
LiteralTexts == {<<NullTok>>, <<StrTok("hello")>>, <<NumTok("10")>>,
                 <<WordTok("hello")>>}
Texts == ObjectTexts \cup PrefixTexts \cup LiteralTexts

\* the texts of the specification's examples
TextValid == Render(<<<<"emitente_cnpj", StrTok("123")>>,
                      <<"total", StrTok("10")>>>>)
TextNullTotal == Render(<<<<"emitente_cnpj", StrTok("123")>>,
                          <<"total", NullTok>>>>)
TextNoCnpj == Render(<<<<"total", StrTok("10")>>>>)
TextHello == <<WordTok("hello")>>
TextEndToEnd == Render(<<<<"emitente_cnpj", StrTok("99.999.999/0001-00")>>,
                         <<"valor_total", StrTok("42.50")>>>>)

(***************************************************************************)
(* parseInt over the characters of a string: an optional sign, then the    *)
(* leading decimal digits; NaN when there is none.                         *)
(***************************************************************************)
Digits == <<"0", "1", "2", "3", "4", "5", "6", "7", "8", "9">>
IsDigit(c) == \E d \in 1..10 : Digits[d] = c
DigitVal(c) == (CHOOSE d \in 1..10 : Digits[d] = c) - 1

RECURSIVE LeadingDigits(_, _, _)
LeadingDigits(chars, i, acc) ==
  IF i > Len(chars) \/ ~IsDigit(chars[i]) THEN [n |-> acc, i |-> i]
  ELSE LeadingDigits(chars, i + 1, acc * 10 + DigitVal(chars[i]))

parseInt(chars) ==
  LET neg == Len(chars) >= 1 /\ chars[1] = "-"
      first == IF Len(chars) >= 1 /\ chars[1] \in {"-", "+"} THEN 2 ELSE 1
      r == LeadingDigits(chars, first, 0)
  IN  IF r.i = first THEN [nan |-> TRUE, n |-> 0]
      ELSE [nan |-> FALSE, n |-> IF neg THEN 0 - r.n ELSE r.n]

parseIntOfFirstChar(chars) ==
  LET r == parseInt(SubSeq(chars, 1, 1)) IN IF r.nan THEN 0 ELSE r.n

\* parseInt(x) || 0
parseIntOrZero(chars) ==
  LET r == parseInt(chars) IN IF r.nan \/ r.n = 0 THEN 0 ELSE r.n

(***************************************************************************)
(* Responses of the external services.                                     *)
(***************************************************************************)
\* bodies of a successful scan/verify response
SampleTexts == {TextValid, TextHello}
\* verifyData.points of a points/verify response with status "generated"
PointsPayloads == {<<"1", "5">>, <<"a", "b">>, <<"-", "5">>}
\* bodies of a failed scan response
ScanErrorBodies == {"", "ocr engine unavailable"}
\* responses of points/generate: ok or not, body JSON or not, transactionId
GenResponses ==
  {[ok |-> TRUE, json |-> TRUE, tx |-> "tx1"],
   [ok |-> FALSE, json |-> TRUE, tx |-> NoId],
   [ok |-> TRUE, json |-> FALSE, tx |-> NoId],
   [ok |-> TRUE, json |-> TRUE, tx |-> NoId]}

(***************************************************************************)
(* State.                                                                  *)
(***************************************************************************)
VARIABLES
  now,     \* the clock (Date.now), in ms
  pc,      \* position of doUploadAndScan: idle, upload, scan, done
  entry,   \* the ProcessingEntry object shared by all callbacks
  scanId,  \* scan_id returned by Scan, NoId when there is none
  store,   \* the Entry Store: the records of the history list
  ocr,     \* the startOcrPolling runs: interval, timeout, requests in flight
  pts,     \* the startPointsPolling runs: interval, requests in flight
  gen,     \* GerarPontos calls in flight
  sent,    \* verify requests followed in flight so far
  reported, \* calls of onProcessingComplete made for the entry
  token,   \* the token state of the component (current render)
  vtext,   \* argument of a validateOcrData call
  vres,    \* its result
  pngBlob,    \* a converted image is selected (pngBlob is not null)
  previewUrl, \* the previewUrl state: null or the object URL of the image
  live,       \* the object URLs created and not revoked
  made,       \* object URLs created so far
  inflight,   \* entries of the doUploadAndScan calls that have not reported
  snapshot,   \* the persisted snapshot of the Entry Store
  conv        \* the locals of a convertToJpg call

pipeVars ==
  <<now, pc, entry, scanId, store, ocr, pts, gen, sent, reported, token>>
valVars == <<vtext, vres>>
sessVars == <<pngBlob, previewUrl, live, made, inflight, snapshot>>
convVars == <<conv>>
otherVars == <<valVars, sessVars, convVars>>
vars ==
  <<now, pc, entry, scanId, store, ocr, pts, gen, sent, reported, token,
    vtext, vres, pngBlob, previewUrl, live, made, inflight, snapshot, conv>>

Statuses == {"processing", "valid", "invalid", "error", "cancelled"}

\* the entry variable before doUploadAndScan has built defaultEntry
NoEntry == [id |-> 0 - 1, image |-> INull, status |-> "none", data |-> JNull,
            error |-> JsNull, points |-> PUndefined, transactionId |-> NoId]
\* convertToJpg has not been called
NoImage == [w |-> 0, h |-> 0, density |-> 0]
NoConversion ==
  [phase |-> "none", image |-> NoImage, width |-> 0, height |-> 0,
   quality |-> 0, attempts |-> 0, size |-> 0]
NoResult == [isValid |-> FALSE, parsedData |-> JUndefined]

defaultEntry ==
  [id |-> now, image |-> previewUrl, status |-> "processing", data |-> JNull,
   error |-> JsNull, points |-> PNull, transactionId |-> NoId]

(***************************************************************************)
(* The Entry Store callbacks.                                              *)
(***************************************************************************)
onProcessingComplete(s, e) == <<e>> \o s
onProcessingUpdate(s, e) ==
  [i \in DOMAIN s |-> IF s[i].id = e.id THEN e ELSE s[i]]

(***************************************************************************)
(* Timers.  An interval run keeps the due time of its last callback in     *)
(* last; its next callback is due at last + period.  When the clock moves  *)
(* to t, the callbacks of the other intervals that were due before t have  *)
(* run with a request that changed nothing.                                *)
(***************************************************************************)
PendingDeadlines ==
  {ocr[r].start + OcrTimeoutMs : r \in {q \in DOMAIN ocr : ocr[q].timeout}}
NoDeadlineBefore(t) == \A d \in PendingDeadlines : t <= d
MinOf(S) == CHOOSE m \in S : \A x \in S : m <= x

CatchUp(last, period, t) ==
  IF t > last THEN last + period * ((t - last - 1) \div period) ELSE last
OcrAt(t) ==
  [r \in DOMAIN ocr |->
     IF ocr[r].on THEN [ocr[r] EXCEPT !.last = CatchUp(@, OcrPollMs, t)]
     ELSE ocr[r]]
PtsAt(t) ==
  [p \in DOMAIN pts |->
     IF pts[p].on THEN [pts[p] EXCEPT !.last = CatchUp(@, PointsPollMs, t)]
     ELSE pts[p]]

\* clearInterval(pollInterval); the interval's bookkeeping is dropped with it
ClearInterval(run) == [run EXCEPT !.on = FALSE, !.last = 0]

\* a run whose timers are gone and whose requests have all returned keeps
\* nothing but its identifier
SettleOcr(run) ==
  IF ~run.on /\ ~run.timeout /\ run.live = 0
    THEN [run EXCEPT !.start = 0, !.resolved = FALSE, !.gens = 0]
    ELSE run
SettlePts(run) ==
  IF ~run.on /\ run.live = 0
    THEN [run EXCEPT !.start = 0, !.tok = NoToken]
    ELSE run

\* the timers startOcrPolling(entry, sid) creates at time t; gens counts the
\* calls of startPointsProcessing the callbacks of the run have made
NewOcrRun(sid, t) ==
  [scanId |-> sid, start |-> t, last |-> t, on |-> TRUE, timeout |-> TRUE,
   live |-> 0, resolved |-> FALSE, gens |-> 0]
startOcrPollingNoInterval(runs, sid, t) ==
  Append(runs, [NewOcrRun(sid, t) EXCEPT !.on = FALSE])

startOcrPolling(runs, sid, t) == Append(runs, NewOcrRun(sid, t))

\* the interval startPointsPolling(entry, tx) creates at time t; its callback
\* closes over the token constant of the render startPointsPolling belongs
\* to, and sends that token with every request
NewPointsRun(tx, t) ==
  [tx |-> tx, start |-> t, last |-> t, on |-> TRUE, live |-> 0,
   tok |-> token]

(***************************************************************************)
(* Init: nothing submitted yet.                                            *)
(***************************************************************************)
PipeInit ==
  /\ now = 0
  /\ pc = "idle"
  /\ entry = NoEntry
  /\ scanId = NoId
  /\ store = <<>>
  /\ ocr = <<>>
  /\ pts = <<>>
  /\ gen = 0
  /\ sent = 0
  /\ reported = 0
  /\ token = "tokenA"

\* an image has been selected: its blob and its preview object URL
ImageSelected ==
  /\ pngBlob = TRUE
  /\ previewUrl = BlobUrl(1)
  /\ live = {1}
  /\ made = 1
  /\ inflight = <<>>
  /\ snapshot = <<>>

Init ==
  /\ PipeInit
  /\ ImageSelected
  /\ conv = NoConversion
  /\ vtext = <<>>
  /\ vres = NoResult

(***************************************************************************)
(* doUploadAndScan, with Upload and Scan.  An image is selected and the    *)
(* token is not blank, so the two early returns are not taken.             *)
(***************************************************************************)
Submit ==
  /\ pc = "idle"
  /\ entry' = defaultEntry
  /\ pc' = "upload"
  /\ UNCHANGED <<now, scanId, store, ocr, pts, gen, sent, reported, token,
                 otherVars>>

CatchUploadAndScanUnguarded(e, s, message) ==
  LET e2 == [e EXCEPT !.status = "error", !.error = message]
  IN  [entry |-> e2, store |-> onProcessingComplete(s, e2), calls |-> 1]

\* the catch block of doUploadAndScan for an exception with this message;
\* calls is the number of calls of onProcessingComplete it makes
CatchUploadAndScan(e, s, message) ==
  IF e.status = "processing"
    THEN LET e2 == [e EXCEPT !.status = "error", !.error = message]
         IN  [entry |-> e2, store |-> onProcessingComplete(s, e2),
              calls |-> 1]
    ELSE [entry |-> e, store |-> s, calls |-> 0]

\* Upload returns an image id
UploadOk ==
  /\ pc = "upload"
  /\ pc' = "scan"
  /\ UNCHANGED <<now, entry, scanId, store, ocr, pts, gen, sent, reported,
                 token, otherVars>>

\* Upload throws: the response is not ok, or it has no image_id
UploadFail ==
  /\ pc = "upload"
  /\ \E message \in {"Falha no upload (500).",
                     "image_id ausente na resposta de upload."} :
       LET c == CatchUploadAndScan(entry, store, message)
       IN  /\ entry' = c.entry
           /\ store' = c.store
           /\ reported' = reported + c.calls
  /\ pc' = "done"
  /\ UNCHANGED <<now, scanId, ocr, pts, gen, sent, token, otherVars>>

\* Scan returns a scan id: the entry is added and OCR polling starts
ScanOk ==
  /\ pc = "scan"
  /\ scanId' = "scan1"
  /\ store' = onProcessingComplete(store, entry)
  /\ ocr' = startOcrPolling(ocr, "scan1", now)
  /\ reported' = reported + 1
  /\ pc' = "done"
  /\ UNCHANGED <<now, entry, pts, gen, sent, token, otherVars>>

\* Scan on a response that is not ok: it records the failure on the entry,
\* reports the entry and throws
ScanNotOkNoMessage(e, s, errorText) ==
  LET message == IF errorText # "" THEN errorText ELSE "Falha no OCR (500)."
      e2 == [e EXCEPT !.status = "error"]
  IN  [entry |-> e2, store |-> onProcessingComplete(s, e2),
       message |-> message, calls |-> 1]

ScanNotOk(e, s, errorText) ==
  LET message == IF errorText # "" THEN errorText ELSE "Falha no OCR (500)."
      e2 == [e EXCEPT !.status = "error", !.error = message]
  IN  [entry |-> e2, store |-> onProcessingComplete(s, e2),
       message |-> message, calls |-> 1]

ScanFail ==
  /\ pc = "scan"
  /\ \E errorText \in ScanErrorBodies :
       LET r == ScanNotOk(entry, store, errorText)
           c == CatchUploadAndScan(r.entry, r.store, r.message)
       IN  /\ entry' = c.entry
           /\ store' = c.store
           /\ reported' = reported + r.calls + c.calls
  /\ pc' = "done"
  /\ UNCHANGED <<now, scanId, ocr, pts, gen, sent, token, otherVars>>

\* Scan on an ok response without scan_id: it throws with the entry untouched
ScanMissingId(e, s) ==
  [entry |-> e, store |-> s,
   message |-> "scan_id ausente na resposta de scan.", calls |-> 0]

ScanNoId ==
  /\ pc = "scan"
  /\ LET r == ScanMissingId(entry, store)
         c == CatchUploadAndScan(r.entry, r.store, r.message)
     IN  /\ entry' = c.entry
         /\ store' = c.store
         /\ reported' = reported + r.calls + c.calls
  /\ pc' = "done"
  /\ UNCHANGED <<now, scanId, ocr, pts, gen, sent, token, otherVars>>

(***************************************************************************)
(* startOcrPolling: the 1 s interval callback and the 120 s timeout.       *)
(***************************************************************************)
\* an interval callback of run r runs and sends a verify request
OcrTick(r) ==
  /\ ocr[r].on
  /\ sent < MaxRequests
  /\ sent' = sent + 1
  /\ LET due == ocr[r].last + OcrPollMs
     IN  /\ NoDeadlineBefore(due)
         /\ now' = due
         /\ ocr' = [OcrAt(due) EXCEPT ![r].last = due,
                                      ![r].live = @ + 1]
         /\ pts' = PtsAt(due)
  /\ UNCHANGED <<pc, entry, scanId, store, gen, reported, token, otherVars>>

\* VerifyOcrRoute throws (response not ok, network error): the callback
\* logs and the interval goes on
catchOcrPollingStops(run) == ClearInterval([run EXCEPT !.live = @ - 1])

\* the catch block of the interval callback: the request is over, nothing else
catchOcrPolling(run) == [run EXCEPT !.live = @ - 1]

OcrProbeFail(r) ==
  /\ ocr[r].live > 0
  /\ ocr' = [ocr EXCEPT ![r] = SettleOcr(catchOcrPolling(@))]
  /\ UNCHANGED <<now, pc, entry, scanId, store, pts, gen, sent, reported,
                 token, otherVars>>

VerifyOcrRouteAlwaysValid(e, s, text) ==
  LET v == validateOcrData(text)
      e2 == [e EXCEPT !.status = IF v.isValid THEN "valid" ELSE "invalid",
                      !.data = v.parsedData]
  IN  [entry |-> e2, store |-> onProcessingUpdate(s, e2), isValid |-> TRUE]

\* VerifyOcrRoute on an ok response with body text, then onProcessingUpdate
VerifyOcrRouteAdds(e, s, text) ==
  LET v == validateOcrData(text)
      e2 == [e EXCEPT !.status = IF v.isValid THEN "valid" ELSE "invalid",
                      !.data = v.parsedData]
  IN  [entry |-> e2, store |-> onProcessingComplete(s, e2),
       isValid |-> v.isValid]

VerifyOcrRoute(e, s, text) ==
  LET v == validateOcrData(text)
      e2 == [e EXCEPT !.status = IF v.isValid THEN "valid" ELSE "invalid",
                      !.data = v.parsedData]
  IN  [entry |-> e2, store |-> onProcessingUpdate(s, e2),
       isValid |-> v.isValid]

\* the callback of run r gets an ok response: the entry is classified, the
\* interval of this run is cleared and, when valid, GerarPontos is called
OcrProbeResolveWith(r, text) ==
  /\ ocr[r].live > 0
  /\ ocr[r].scanId # NoId
  /\ LET res == VerifyOcrRoute(entry, store, text)
         calls == IF res.isValid THEN 1 ELSE 0
     IN  /\ entry' = res.entry
         /\ store' = res.store
         /\ gen' = gen + calls
         /\ ocr' = [q \in DOMAIN ocr |->
                      IF q = r
                        THEN SettleOcr([ClearInterval(ocr[q]) EXCEPT
                                          !.live = @ - 1, !.resolved = TRUE,
                                          !.gens = @ + calls])
                        ELSE SettleOcr([ocr[q] EXCEPT !.resolved = TRUE])]
  /\ UNCHANGED <<now, pc, scanId, pts, sent, reported, token, otherVars>>

OcrProbeResolve(r) == \E text \in SampleTexts : OcrProbeResolveWith(r, text)

\* the body of the timeout callback on the entry
ocrTimeoutAsError(e) ==
  IF e.status = "processing"
    THEN [e EXCEPT !.status = "error",
                   !.error = "Timeout no processamento do OCR."]
    ELSE e

ocrTimeout(e) ==
  IF e.status = "processing"
    THEN [e EXCEPT !.status = "cancelled",
                   !.error = "Processamento cancelado - Timeout no OCR."]
    ELSE e

\* the setTimeout callback of run r, 120 s after the start of the run
OcrTimeout(r) ==
  /\ ocr[r].timeout
  /\ now = ocr[r].start + OcrTimeoutMs
  /\ ocr' = [ocr EXCEPT
               ![r] = SettleOcr([ClearInterval(@) EXCEPT !.timeout = FALSE])]
  /\ entry' = ocrTimeout(entry)
  /\ store' = IF entry.status = "processing"
                THEN onProcessingUpdate(store, entry')
                ELSE store
  /\ UNCHANGED <<now, pc, scanId, pts, gen, sent, reported, token, otherVars>>

\* time passes until the next timeout is due; the interval callbacks due
\* before it run with requests that change nothing
Advance ==
  /\ PendingDeadlines # {}
  /\ LET d == MinOf(PendingDeadlines)
     IN  /\ d > now
         /\ now' = d
         /\ ocr' = OcrAt(d)
         /\ pts' = PtsAt(d)
  /\ UNCHANGED <<pc, entry, scanId, store, gen, sent, reported, token,
                 otherVars>>

(***************************************************************************)
(* startPointsProcessing and startPointsPolling.                           *)
(***************************************************************************)
startPointsPollingKeepsPoints(e, s, runs, tx, t) ==
  [entry |-> e, store |-> onProcessingUpdate(s, e),
   pts |-> Append(runs, NewPointsRun(tx, t))]

\* startPointsPolling(entry, tx): points back to undefined, entry reported,
\* a 5 s interval created
startPointsPolling(e, s, runs, tx, t) ==
  LET e2 == [e EXCEPT !.points = PUndefined]
  IN  [entry |-> e2, store |-> onProcessingUpdate(s, e2),
       pts |-> Append(runs, NewPointsRun(tx, t))]

\* GerarPontos on a response: it throws when the body is no JSON, when the
\* response is not ok, and when the body has no transactionId
GerarPontos(resp) ==
  IF ~resp.json THEN [threw |-> TRUE, tx |-> NoId]
  ELSE IF ~resp.ok THEN [threw |-> TRUE, tx |-> NoId]
  ELSE IF resp.tx = NoId THEN [threw |-> TRUE, tx |-> NoId]
  ELSE [threw |-> FALSE, tx |-> resp.tx]

\* GerarPontos returns a transaction id
GenOkWith(resp) ==
  /\ gen > 0
  /\ Len(pts) < MaxPointsRuns
  /\ gen' = gen - 1
  /\ LET g == GerarPontos(resp)
         e1 == [entry EXCEPT !.transactionId = g.tx]
         res == startPointsPolling(e1, store, pts, g.tx, now)
     IN  /\ ~g.threw
         /\ entry' = res.entry
         /\ store' = res.store
         /\ pts' = res.pts
  /\ UNCHANGED <<now, pc, scanId, ocr, sent, reported, token, otherVars>>

GenOk == \E resp \in GenResponses : GenOkWith(resp)

catchPointsProcessingKeepsError(e) == [e EXCEPT !.points = PNull]

\* the catch block of startPointsProcessing
catchPointsProcessing(e) ==
  [e EXCEPT !.points = PNull, !.error = "Erro ao gerar pontos"]

\* GerarPontos throws (response not ok, body malformed, no transactionId)
GenFail ==
  /\ gen > 0
  /\ gen' = gen - 1
  /\ \E resp \in GenResponses : GerarPontos(resp).threw
  /\ entry' = catchPointsProcessing(entry)
  /\ store' = onProcessingUpdate(store, entry')
  /\ UNCHANGED <<now, pc, scanId, ocr, pts, sent, reported, token, otherVars>>

\* an interval callback of points run p runs and sends a verify request
PtsTick(p) ==
  /\ pts[p].on
  /\ sent < MaxRequests
  /\ sent' = sent + 1
  /\ LET due == pts[p].last + PointsPollMs
     IN  /\ NoDeadlineBefore(due)
         /\ now' = due
         /\ pts' = [PtsAt(due) EXCEPT ![p].last = due,
                                      ![p].live = @ + 1]
         /\ ocr' = OcrAt(due)
  /\ UNCHANGED <<pc, entry, scanId, store, gen, reported, token, otherVars>>

\* time passes until two minutes after the start of points run p, which is
\* still polling: its callbacks up to that instant have run with requests
\* that were answered "not generated yet"
PtsElapse(p) ==
  /\ pts[p].on
  /\ LET t == pts[p].start + PointsDeadlineMs
     IN  /\ now < t
         /\ NoDeadlineBefore(t)
         /\ now' = t
         /\ ocr' = OcrAt(t)
         /\ pts' = [PtsAt(t) EXCEPT ![p].last = t]
  /\ UNCHANGED <<pc, entry, scanId, store, gen, sent, reported, token,
                 otherVars>>

\* VerifyPoints returns without effect: status is not "generated" or points
\* is falsy
PtsProbePending(p) ==
  /\ pts[p].live > 0
  /\ pts' = [pts EXCEPT ![p] = SettlePts([@ EXCEPT !.live = @ - 1])]
  /\ UNCHANGED <<now, pc, entry, scanId, store, ocr, gen, sent, reported,
                 token, otherVars>>

\* VerifyPoints on {status: "generated", points: payload}
PtsProbeResolveWith(p, payload) ==
  /\ pts[p].live > 0
  /\ entry' = [entry EXCEPT !.points = PNumber(parseIntOrZero(payload))]
  /\ store' = onProcessingUpdate(store, entry')
  /\ pts' = [pts EXCEPT
               ![p] = SettlePts([ClearInterval(@) EXCEPT !.live = @ - 1])]
  /\ UNCHANGED <<now, pc, scanId, ocr, gen, sent, reported, token, otherVars>>

PtsProbeResolve(p) ==
  \E payload \in PointsPayloads : PtsProbeResolveWith(p, payload)

catchPointsPollingAsError(e) ==
  [e EXCEPT !.status = "error", !.points = PNull,
            !.error = "Erro ao processar pontos"]

\* the catch block of the points interval callback, on the entry
catchPointsPolling(e) ==
  [e EXCEPT !.points = PNull, !.error = "Erro ao processar pontos"]

\* VerifyPoints throws (response not ok): the catch block of the callback
PtsProbeFail(p) ==
  /\ pts[p].live > 0
  /\ entry' = catchPointsPolling(entry)
  /\ store' = onProcessingUpdate(store, entry')
  /\ pts' = [pts EXCEPT
               ![p] = SettlePts([ClearInterval(@) EXCEPT !.live = @ - 1])]
  /\ UNCHANGED <<now, pc, scanId, ocr, gen, sent, reported, token, otherVars>>

(***************************************************************************)
(* Retry and cancel, from the buttons of ProcessingHistory.                *)
(***************************************************************************)
\* the entry as the retry-OCR handler hands it to window.retryOcr
HandleRetryOcr(e) == [e EXCEPT !.status = "processing", !.error = JsNull]

\* the entry as the cancel handler leaves it
HandleCancelProcessing(e) ==
  [e EXCEPT !.status = "error",
            !.error = "Processamento cancelado pelo usuario."]

\* the statuses for which the history list and the result panel render a
\* retry-OCR button
RetryOcrAvailable == entry.status \in {"invalid", "error"}

\* "Tentar novamente" / retry of an invalid entry, then window.retryOcr
RetryOcr ==
  /\ pc = "done"
  /\ RetryOcrAvailable
  /\ Len(ocr) < MaxOcrRuns
  /\ entry' = HandleRetryOcr(entry)
  /\ store' = onProcessingUpdate(store, entry')
  /\ ocr' = startOcrPolling(ocr, scanId, now)
  /\ UNCHANGED <<now, pc, scanId, pts, gen, sent, reported, token, otherVars>>

\* retry of the points of a valid entry, then window.retryPoints
RetryPoints ==
  /\ pc = "done"
  /\ entry.status = "valid"
  /\ Truthy(entry.data)
  /\ entry.points = PNull
  /\ Len(pts) < MaxPointsRuns
  /\ LET res == startPointsPolling(entry, store, pts, entry.transactionId, now)
     IN  /\ entry' = res.entry
         /\ store' = res.store
         /\ pts' = res.pts
  /\ UNCHANGED <<now, pc, scanId, ocr, gen, sent, reported, token, otherVars>>

\* the user edits the token field: setToken, the component renders again and
\* window.retryOcr / window.retryPoints are replaced by the closures of the
\* new render.  The edit is taken while no upload, scan, OCR polling or
\* points generation is under way, so the token these stages hold is the
\* current one; the running points polling intervals keep theirs.
SetToken ==
  /\ pc \in {"idle", "done"}
  /\ gen = 0
  /\ \A r \in DOMAIN ocr : ~ocr[r].on /\ ocr[r].live = 0
  /\ \E t \in Tokens \ {token} : token' = t
  /\ UNCHANGED <<now, pc, entry, scanId, store, ocr, pts, gen, sent, reported,
                 otherVars>>

\* the cancel button of a processing entry: the handler gets the entry and
\* nothing else.  The interval and timeout handles are local constants of
\* startOcrPolling and startPointsPolling and their callbacks test no field of
\* the entry before they send a request, so the timers stay as they are.
CancelProcessing ==
  /\ pc = "done"
  /\ entry.status = "processing"
  /\ entry' = HandleCancelProcessing(entry)
  /\ store' = onProcessingUpdate(store, entry')
  /\ UNCHANGED <<now, pc, scanId, ocr, pts, gen, sent, reported, token,
                 otherVars>>

(***************************************************************************)
(* The pipeline.                                                           *)
(***************************************************************************)
\* the steps of one submission when the user neither retries nor cancels
FirstPassStep ==
  \/ Submit
  \/ UploadOk
  \/ UploadFail
  \/ ScanOk
  \/ ScanFail
  \/ ScanNoId
  \/ \E r \in DOMAIN ocr : OcrTick(r)
  \/ \E r \in DOMAIN ocr : OcrProbeFail(r)
  \/ \E r \in DOMAIN ocr : OcrProbeResolve(r)
  \/ \E r \in DOMAIN ocr : OcrTimeout(r)
  \/ Advance
  \/ GenOk
  \/ GenFail
  \/ \E p \in DOMAIN pts : PtsTick(p)
  \/ \E p \in DOMAIN pts : PtsElapse(p)
  \/ \E p \in DOMAIN pts : PtsProbePending(p)
  \/ \E p \in DOMAIN pts : PtsProbeResolve(p)
  \/ \E p \in DOMAIN pts : PtsProbeFail(p)

\* every step but the user's cancel
PipelineStep ==
  \/ FirstPassStep
  \/ RetryOcr
  \/ RetryPoints

Next ==
  \/ PipelineStep
  \/ CancelProcessing

Spec == Init /\ [][Next]_vars

\* the pipeline when the user never cancels: submit, responses, timers, retries
SpecNoCancel == Init /\ [][PipelineStep]_vars

\* the pipeline with edits of the token field
NextToken ==
  \/ PipelineStep
  \/ SetToken

SpecToken == Init /\ [][NextToken]_vars

\* one submission running through the pipeline, without retry and cancel
SpecFirstPass == Init /\ [][FirstPassStep]_vars

(***************************************************************************)
(* One submission whose first verify requests are answered with an error   *)
(* status and whose later one returns the text of the end-to-end example.  *)
(***************************************************************************)
\* an interval callback of run r runs; its verify request is answered with
\* an error status at once: VerifyOcrRoute throws and the callback logs
OcrTickQuiet(r) ==
  /\ ocr[r].on
  /\ sent = 0
  /\ LET due == ocr[r].last + OcrPollMs
     IN  /\ due <= ocr[r].start + MaxQuietTicks * OcrPollMs
         /\ NoDeadlineBefore(due)
         /\ now' = due
         /\ ocr' = [OcrAt(due) EXCEPT ![r].last = due]
         /\ pts' = PtsAt(due)
  /\ UNCHANGED <<pc, entry, scanId, store, gen, sent, reported, token,
                 otherVars>>

NextEndToEnd ==
  \/ FirstPassStep
  \/ \E r \in DOMAIN ocr : OcrTickQuiet(r)
  \/ \E r \in DOMAIN ocr : OcrProbeResolveWith(r, TextEndToEnd)

SpecEndToEnd == Init /\ [][NextEndToEnd]_vars

(***************************************************************************)
(* validateOcrData applied to every text of Texts.                         *)
(***************************************************************************)
InitValidate ==
  /\ PipeInit
  /\ ImageSelected
  /\ conv = NoConversion
  /\ vtext \in Texts
  /\ vres = NoResult

Validate ==
  /\ vres = NoResult
  /\ vres' = validateOcrData(vtext)
  /\ UNCHANGED <<vtext, pipeVars, sessVars, convVars>>

NextValidate == Validate

SpecValidate == InitValidate /\ [][NextValidate]_vars

(***************************************************************************)
(* A session of the component: files are selected and cleared, the submit  *)
(* button is clicked, the clock advances; the Entry Store is saved and     *)
(* loaded again in a new session.  The polling of the submitted entries is *)
(* not followed here.                                                      *)
(***************************************************************************)
SessInit ==
  /\ PipeInit
  /\ pngBlob = FALSE
  /\ previewUrl = INull
  /\ live = {}
  /\ made = 0
  /\ inflight = <<>>
  /\ snapshot = <<>>
  /\ conv = NoConversion
  /\ vtext = <<>>
  /\ vres = NoResult

\* handleFiles on an image file whose conversion is accepted: a new object
\* URL is created and the one previewUrl held is revoked
handleFiles ==
  /\ made < MaxUrls
  /\ made' = made + 1
  /\ live' = (IF previewUrl.k = "blob" THEN live \ {previewUrl.u} ELSE live)
               \cup {made + 1}
  /\ previewUrl' = BlobUrl(made + 1)
  /\ pngBlob' = TRUE
  /\ UNCHANGED <<inflight, snapshot, pipeVars, valVars, convVars>>

\* the "Limpar" button
clearImage ==
  /\ previewUrl # INull
  /\ pngBlob' = FALSE
  /\ live' = live \ {previewUrl.u}
  /\ previewUrl' = INull
  /\ UNCHANGED <<made, inflight, snapshot, pipeVars, valVars, convVars>>

\* a millisecond passes
ClockTick ==
  /\ now < MaxClock
  /\ now' = now + 1
  /\ UNCHANGED <<pc, entry, scanId, store, ocr, pts, gen, sent, reported,
                 token, otherVars>>

\* a click on the submit button: doUploadAndScan builds defaultEntry and
\* awaits Upload.  The button is enabled whenever an image is selected, also
\* while an earlier call is under way.
SubmitClick ==
  /\ pngBlob
  /\ token # ""
  /\ Len(inflight) + Len(store) < MaxSubmissions
  /\ inflight' = Append(inflight, defaultEntry)
  /\ UNCHANGED <<pngBlob, previewUrl, live, made, snapshot, pipeVars, valVars,
                 convVars>>

\* seq without its i-th element
RemoveAt(seq, i) == SubSeq(seq, 1, i - 1) \o SubSeq(seq, i + 1, Len(seq))

\* the doUploadAndScan call of inflight[i] reports its entry: after Scan
\* returned, or from the catch block after Upload or Scan threw
SubmitDone(i) ==
  /\ \/ store' = onProcessingComplete(store, inflight[i])
     \/ store' = CatchUploadAndScan(inflight[i], store,
                                    "Falha no upload (500).").store
  /\ inflight' = RemoveAt(inflight, i)
  /\ UNCHANGED <<now, pc, entry, scanId, ocr, pts, gen, sent, reported, token,
                 pngBlob, previewUrl, live, made, snapshot, valVars, convVars>>

blobUrlToBase64KeepsUrl(image, liveUrls, readOk) ==
  IF image.u \notin liveUrls \/ ~readOk THEN image ELSE DataUrl(image.u)

\* blobUrlToBase64(blobUrl): the data URL of the blob; null when fetch rejects
\* (the object URL is revoked or of another session) and when the reader
\* ends without a result
blobUrlToBase64(image, liveUrls, readOk) ==
  IF image.u \notin liveUrls THEN INull
  ELSE IF ~readOk THEN INull
  ELSE DataUrl(image.u)

\* the image of an entry as the persistence adapter stores and loads it
ResolveImage(image, liveUrls, readOk) ==
  IF image.k = "blob" THEN blobUrlToBase64(image, liveUrls, readOk)
  ELSE image

\* save: the store is written with every image resolved
SaveSnapshot ==
  /\ store # <<>>
  /\ \E readable \in SUBSET DOMAIN store :
       snapshot' =
         [i \in DOMAIN store |->
            [store[i] EXCEPT
               !.image = ResolveImage(@, live, i \in readable)]]
  /\ UNCHANGED <<pngBlob, previewUrl, live, made, inflight, pipeVars, valVars,
                 convVars>>

\* the page is loaded again: a new session, in which no object URL of the
\* old one resolves, starts from the snapshot
LoadSnapshot ==
  /\ snapshot # <<>>
  /\ store' =
       [i \in DOMAIN snapshot |->
          [snapshot[i] EXCEPT !.image = ResolveImage(@, {}, TRUE)]]
  /\ pngBlob' = FALSE
  /\ previewUrl' = INull
  /\ live' = {}
  /\ inflight' = <<>>
  /\ UNCHANGED <<now, pc, entry, scanId, ocr, pts, gen, sent, reported, token,
                 made, snapshot, valVars, convVars>>

NextSession ==
  \/ handleFiles
  \/ clearImage
  \/ ClockTick
  \/ SubmitClick
  \/ \E i \in DOMAIN inflight : SubmitDone(i)
  \/ SaveSnapshot
  \/ LoadSnapshot

SpecSession == SessInit /\ [][NextSession]_vars

(***************************************************************************)
(* convertToJpg and the size check of handleFiles.  An image is its pixel  *)
(* dimensions and its density: the bytes the JPEG encoder of the canvas    *)
(* writes per 100 pixels at quality 1.0; the encoded size grows with the   *)
(* pixel count and with the quality.                                       *)
(***************************************************************************)
ImageWidths == {800, 2048, 4000}
ImageHeights == {600, 2048, 3000}
ImageDensities == {30, 150, 220, 250, 400}
Images ==
  {[w |-> w, h |-> h, density |-> d] :
     w \in ImageWidths, h \in ImageHeights, d \in ImageDensities}

Min(a, b) == IF a <= b THEN a ELSE b
Max(a, b) == IF a >= b THEN a ELSE b

\* canvas.toBlob(..., "image/jpeg", quality): the size of the blob
EncodedSize(image, width, height, quality) ==
  (((width * height) \div 100) * image.density * quality) \div 100

\* the scale factor is min(max / w, max / h): the larger side becomes max
calculateDimensions(originalWidth, originalHeight, maxDimension) ==
  IF originalWidth <= maxDimension /\ originalHeight <= maxDimension
    THEN [width |-> originalWidth, height |-> originalHeight]
  ELSE IF originalWidth >= originalHeight
    THEN [width |-> maxDimension,
          height |-> (originalHeight * maxDimension) \div originalWidth]
  ELSE [width |-> (originalWidth * maxDimension) \div originalHeight,
        height |-> maxDimension]

\* the locals of convertToJpg(file) when it enters the loop
ConvertStart(image) ==
  LET d == calculateDimensions(image.w, image.h, MAX_DIMENSION)
  IN  [phase |-> "loop", image |-> image, width |-> d.width,
       height |-> d.height, quality |-> InitialQuality, attempts |-> 0,
       size |-> 0]

\* one pass of the do-while loop
EncodeAttempt ==
  /\ conv.phase = "loop"
  /\ LET attempts == conv.attempts + 1
         size == EncodedSize(conv.image, conv.width, conv.height, conv.quality)
         again == size > TARGET_SIZE /\ attempts < maxAttempts
     IN  conv' =
           IF ~again
             THEN [conv EXCEPT !.attempts = attempts, !.size = size,
                               !.phase = "returned"]
           ELSE IF conv.quality > QualityThreshold
             THEN [conv EXCEPT
                     !.attempts = attempts, !.size = size,
                     !.quality = Max(MinQuality, conv.quality - QualityStep)]
           ELSE [conv EXCEPT
                   !.attempts = attempts, !.size = size,
                   !.width = (conv.width * ScaleTenths) \div 10,
                   !.height = (conv.height * ScaleTenths) \div 10,
                   !.quality = Min(QualityThreshold,
                                   conv.quality + QualityRecover)]
  /\ UNCHANGED <<pipeVars, valVars, sessVars>>

\* handleFiles after convertToJpg returned: the size check
SizeCheck ==
  /\ conv.phase = "returned"
  /\ conv' = [conv EXCEPT !.phase = IF conv.size > BYTES_5MB
                                      THEN "rejected" ELSE "accepted"]
  /\ UNCHANGED <<pipeVars, valVars, sessVars>>

InitConvert ==
  /\ PipeInit
  /\ pngBlob = FALSE
  /\ previewUrl = INull
  /\ live = {}
  /\ made = 0
  /\ inflight = <<>>
  /\ snapshot = <<>>
  /\ conv \in {ConvertStart(image) : image \in Images}
  /\ vtext = <<>>
  /\ vres = NoResult

NextConvert ==
  \/ EncodeAttempt
  \/ SizeCheck

SpecConvert == InitConvert /\ [][NextConvert]_vars

(***************************************************************************)
(* Properties.                                                             *)
(***************************************************************************)
Created == entry.status # "none"
Terminal == {"valid", "invalid", "error", "cancelled"}
CancelMessage == HandleCancelProcessing(entry).error
TimeoutMessage == "Processamento cancelado - Timeout no OCR."
AnyOcrProbeDone == \E r \in DOMAIN ocr : OcrProbeFail(r) \/ OcrProbeResolve(r)
CurrentOcrRun == ocr[Len(ocr)]

\* C1: the status of the entry changes only from processing to valid,
\* invalid, error or cancelled, and leaves one of these four only through a
\* retry of the OCR that sets it back to processing.
C1_TransitionLegality ==
  [][(Created /\ entry'.status # entry.status) =>
       \/ entry.status = "processing" /\ entry'.status \in Terminal
       \/ RetryOcr /\ entry'.status = "processing"]_vars

\* C2: once the entry has left processing because the OCR timeout fired or
\* the user cancelled it, the completion of a verify request that was already
\* in flight changes neither status nor data and starts no points generation.
C2_LateProbeDiscarded ==
  [][(/\ \/ entry.status = "cancelled"
         \/ entry.status = "error" /\ entry.error = CancelMessage
      /\ AnyOcrProbeDone) =>
       /\ entry'.status = entry.status
       /\ entry'.data = entry.data
       /\ gen' = gen]_vars

\* C3: when the timeout of an OCR polling run fires 120 s after the start of
\* the run, the interval of the run still being active and no verify request
\* having resolved since the run started, the entry is cancelled afterwards
\* and its error is a non-empty string.
C3_TimeoutCancels ==
  [][\A r \in DOMAIN ocr :
       (OcrTimeout(r) /\ ocr[r].on /\ ~ocr[r].resolved) =>
         /\ now = ocr[r].start + OcrTimeoutMs
         /\ entry'.status = "cancelled"
         /\ entry'.error \notin {JsNull, ""}]_vars

\* the timeout of a run has fired on a still processing entry
C3_Witness ==
  /\ entry.status = "cancelled"
  /\ entry.error = TimeoutMessage
  /\ now = OcrTimeoutMs
  /\ sent = 0

\* C4: a timeout never moves the entry to cancelled earlier than 120 s after
\* the start of its current (latest) OCR polling run.
C4_TimeoutFromCurrentRun ==
  [][(Created /\ entry.status # "cancelled" /\ entry'.status = "cancelled") =>
       now' >= CurrentOcrRun.start + OcrTimeoutMs]_vars

\* C5: points only moves from undefined to null or to a number; only an
\* explicit retry of the points sets it back to undefined.
C5_PointsMonotone ==
  [][(Created /\ entry'.points # entry.points) =>
       \/ entry.points = PUndefined
       \/ RetryPoints /\ entry'.points = PUndefined]_vars

\* C6 as stated: error is non-null exactly when status is error.
C6_ErrorIffStatusError ==
  Created => ((entry.error # JsNull) <=> (entry.status = "error"))

\* C6 as amended: in status error, and in status cancelled, error is a
\* non-empty message.
C6_ErrorStatusHasMessage ==
  (Created /\ entry.status \in {"error", "cancelled"}) =>
    entry.error \notin {JsNull, ""}

\* Scan failed with an empty response body
C6_Witness ==
  /\ entry.status = "error"
  /\ entry.error = "Falha no OCR (500)."
  /\ Len(store) = 1

\* what the parse of text yields
Parsed(text) == JSONparse(text)
\* the condition of C7 for isValid = true
ClaimedValid(text) ==
  LET p == Parsed(text)
  IN  /\ p.ok
      /\ p.val.t = "obj"
      /\ \A k \in DOMAIN p.val.v : p.val.v[k] # JNull
      /\ "emitente_cnpj" \in DOMAIN p.val.v
      /\ Truthy(p.val.v["emitente_cnpj"])
Validated == vres # NoResult

\* C7 as stated: isValid is true exactly when the text parses, no top-level
\* value is null and emitente_cnpj is truthy; data is the parsed value when
\* the text parses and the raw text otherwise.
C7_ValidateAsClaimed ==
  Validated =>
    /\ vres.isValid = ClaimedValid(vtext)
    /\ vres.parsedData =
         IF Parsed(vtext).ok THEN Parsed(vtext).val ELSE JText(vtext)

\* C7 as amended: the same, but data is the raw text also when the text is
\* the literal null; with the four examples of the specification.
C7_Validate ==
  Validated =>
    /\ vres.isValid = ClaimedValid(vtext)
    /\ vres.parsedData =
         IF Parsed(vtext).ok /\ Parsed(vtext).val # JNull
           THEN Parsed(vtext).val ELSE JText(vtext)
    /\ vtext = TextValid => vres.isValid
    /\ vtext \in {TextNullTotal, TextNoCnpj} =>
         ~vres.isValid /\ vres.parsedData.t = "obj"
    /\ vtext = TextHello =>
         ~vres.isValid /\ vres.parsedData = JText(TextHello)

C7_Witness ==
  /\ vtext = TextValid
  /\ vres.isValid
  /\ vres.parsedData.v["emitente_cnpj"] = JStr("123")

\* C8: a retry of the OCR, and every callback of the OCR polling it starts,
\* leaves the number of records of the Entry Store and their ids as they are.
C8_RetryKeepsStoreSize ==
  [][(\/ RetryOcr
      \/ \E r \in DOMAIN ocr : OcrTick(r)
      \/ AnyOcrProbeDone
      \/ \E r \in DOMAIN ocr : OcrTimeout(r)) =>
       /\ Len(store') = Len(store)
       /\ \A i \in DOMAIN store : store'[i].id = store[i].id]_vars

\* the OCR was retried twice and a callback of the last run has classified
\* the entry
C8_Witness ==
  /\ Len(ocr) = 3
  /\ Len(store) = 1
  /\ store[1].status \in {"valid", "invalid"}
  /\ ~ocr[3].on /\ ocr[3].timeout

C10_FreshValidUndefined ==
  (entry.status = "valid" /\ gen > 0) => entry.points = PUndefined

\* C11: when GerarPontos fails, afterwards points is null and error is a
\* non-empty message; status and transactionId are as before and no points
\* polling run has been started.
C11_GenerateFailure ==
  [][GenFail =>
       /\ entry'.points = PNull
       /\ entry'.error \notin {JsNull, ""}
       /\ entry'.status = entry.status
       /\ entry'.transactionId = entry.transactionId
       /\ pts' = pts]_vars

\* the first points generation of a valid entry has failed
C11_Witness ==
  /\ entry.status = "valid"
  /\ entry.error = "Erro ao gerar pontos"
  /\ entry.points = PNull
  /\ entry.transactionId = NoId
  /\ gen = 0
  /\ pts = <<>>

\* C12: a failure of points generation or of a points verify request changes
\* neither status nor data of the entry.
C12_PointsFailuresIsolated ==
  [][(GenFail \/ \E p \in DOMAIN pts : PtsProbeFail(p)) =>
       /\ entry'.status = entry.status
       /\ entry'.data = entry.data]_vars

\* a points verify request of a valid entry has failed
C12_Witness ==
  /\ entry.status = "valid"
  /\ entry.error = "Erro ao processar pontos"
  /\ entry.points = PNull
  /\ entry.data = JSONparse(TextValid).val

\* C13: after a points verify request resolves, points is a non-negative
\* integer and the interval of that polling run is cleared.
C13_ResolvedPointsNonNegative ==
  [][\A p \in DOMAIN pts :
       PtsProbeResolve(p) =>
         /\ entry'.points.k = "number"
         /\ entry'.points.n >= 0
         /\ ~pts'[p].on]_vars

\* C14: a failed verify request of an OCR polling run leaves the entry, the
\* store and the points stage as they are and does not stop the loop: the
\* interval of the run stays as it was, with its next callback due one second
\* after the last one, and so does the timeout.
C14_OcrProbeFailureRetried ==
  [][\A r \in DOMAIN ocr :
       OcrProbeFail(r) =>
         /\ entry' = entry
         /\ store' = store
         /\ gen' = gen
         /\ ocr'[r].on = ocr[r].on
         /\ ocr'[r].last = ocr[r].last
         /\ ocr'[r].timeout = ocr[r].timeout]_vars

\* the only verify request sent so far has failed and the run is still
\* polling the processing entry
C14_Witness ==
  /\ Len(ocr) = 1
  /\ sent = 1
  /\ ocr[1].live = 0
  /\ ocr[1].on
  /\ ocr[1].timeout
  /\ entry.status = "processing"

\* C15: a failed verify request of a points polling run does not stop the
\* loop: the interval of the run stays as it was.
C15_PointsProbeFailureRetried ==
  [][\A p \in DOMAIN pts :
       PtsProbeFail(p) => pts'[p].on = pts[p].on]_vars

\* C16: no points verify request is sent more than 120 s after the start of
\* its polling run.
C16_PointsPollingBounded ==
  [][\A p \in DOMAIN pts :
       PtsTick(p) => now' <= pts[p].start + PointsDeadlineMs]_vars

\* C17: whichever way Scan fails (response not ok, or ok without scan_id),
\* the entry as Scan leaves it when it throws has status error and the
\* failure text as error.
C17_ScanFailureRecorded ==
  pc = "scan" =>
    /\ \A errorText \in ScanErrorBodies :
         LET r == ScanNotOk(entry, store, errorText)
         IN  r.entry.status = "error" /\ r.entry.error = r.message
    /\ LET r == ScanMissingId(entry, store)
       IN  r.entry.status = "error" /\ r.entry.error = r.message

\* the messages of the exceptions Upload and Scan throw
FailureMessages ==
  {"Falha no upload (500).", "image_id ausente na resposta de upload.",
   "Falha no OCR (500).", "scan_id ausente na resposta de scan."}
    \cup (ScanErrorBodies \ {""})

\* C18: a failure of Upload or Scan in doUploadAndScan leaves the entry with
\* status error and the failure message as error, reported to the store by
\* exactly one call of onProcessingComplete, and no OCR polling run and no
\* points generation started.
C18_UploadScanFailureRecorded ==
  [][(UploadFail \/ ScanFail \/ ScanNoId) =>
       /\ entry'.status = "error"
       /\ entry'.error \in FailureMessages
       /\ reported = 0
       /\ reported' = 1
       /\ ocr' = ocr
       /\ gen' = gen]_vars

\* Scan answered without scan_id and the catch of doUploadAndScan recorded it
C18_Witness ==
  /\ pc = "done"
  /\ entry.status = "error"
  /\ entry.error = "scan_id ausente na resposta de scan."
  /\ reported = 1
  /\ ocr = <<>>

C20_CurrentTokenSent ==
  [][\A p \in DOMAIN pts : PtsTick(p) => pts[p].tok = token]_vars

\* the entry is as the user's cancel left it
UserCancelled == entry.status = "error" /\ entry.error = CancelMessage

\* C21: the user's cancel is taken only on a processing entry and leaves it
\* in status error with a cancellation message; while the entry is as the
\* cancel left it no interval callback of an OCR or points polling run of the
\* entry sends a verify request.
C21_CancelStopsPolling ==
  [][/\ CancelProcessing =>
          /\ entry.status = "processing"
          /\ entry'.status = "error"
          /\ entry'.error \notin {JsNull, ""}
     /\ \A r \in DOMAIN ocr : OcrTick(r) => ~UserCancelled
     /\ \A p \in DOMAIN pts : PtsTick(p) => ~UserCancelled]_vars

\* C22: for an entry in status error or cancelled, cancelled by the OCR
\* timeout included, the retry of the OCR is available.
C22_RetryAvailable ==
  (Created /\ entry.status \in {"error", "cancelled"}) => RetryOcrAvailable

\* C23: a retry of the points sets points to undefined and starts one more
\* points polling run, on the transaction id the entry has, at the time of
\* the retry; status, data, transactionId and id of the entry and the number
\* of records of the store and their ids stay as they are.
C23_RetryPoints ==
  [][RetryPoints =>
       /\ entry'.points = PUndefined
       /\ Len(pts') = Len(pts) + 1
       /\ pts'[Len(pts')].tx = entry.transactionId
       /\ pts'[Len(pts')].on
       /\ pts'[Len(pts')].start = now
       /\ entry'.status = entry.status
       /\ entry'.data = entry.data
       /\ entry'.transactionId = entry.transactionId
       /\ entry'.id = entry.id
       /\ Len(store') = Len(store)
       /\ \A i \in DOMAIN store : store'[i].id = store[i].id
       /\ store'[1] = entry']_vars

\* the points of a valid entry were retried after a failed points verify
\* request and the new run is polling
C23_Witness ==
  /\ Len(pts) = 2
  /\ pts[2].on
  /\ pts[2].tx = "tx1"
  /\ entry.points = PUndefined
  /\ entry.status = "valid"
  /\ entry.transactionId = "tx1"
  /\ Len(store) = 1

\* C24: no two records of the Entry Store have the same id.
C24_UniqueIds ==
  \A i, j \in DOMAIN store : i # j => store[i].id # store[j].id

\* C25: in the run of the end-to-end example the third verify request, sent
\* after two that did not resolve, returns the example's text and leaves the
\* entry valid with the parsed text as data and one call of GerarPontos
\* started; GerarPontos returning tx1 leaves transactionId tx1 and a points
\* polling run on tx1; the points verify response with points "15" leaves
\* points 15, the status valid as before and the polling stopped; the store
\* has one record throughout, the entry.
C25_EndToEnd ==
  [][/\ \A r \in DOMAIN ocr :
          (OcrProbeResolveWith(r, TextEndToEnd) /\ entry.status = "processing")
            => /\ entry'.status = "valid"
               /\ entry'.data = JSONparse(TextEndToEnd).val
               /\ gen' = gen + 1
               /\ store' = <<entry'>>
     /\ (GenOkWith([ok |-> TRUE, json |-> TRUE, tx |-> "tx1"])
            /\ entry.status = "valid")
          => /\ entry'.transactionId = "tx1"
             /\ entry'.status = "valid"
             /\ pts'[Len(pts')].tx = "tx1"
             /\ pts'[Len(pts')].on
             /\ store' = <<entry'>>
     /\ \A p \in DOMAIN pts :
          (PtsProbeResolveWith(p, <<"1", "5">>) /\ entry.status = "valid")
            => /\ entry'.points = PNumber(15)
               /\ entry'.status = "valid"
               /\ ~pts'[p].on
               /\ store' = <<entry'>>]_vars

\* the end of the run of the example: the callbacks at 1 s and 2 s got no
\* resolving response, the one at 3 s got the text; points polling started
\* at 3 s and its first request, sent at 8 s, returned 15 points
C25_Witness ==
  /\ now = 8000
  /\ sent = 2
  /\ entry.status = "valid"
  /\ entry.data = JSONparse(TextEndToEnd).val
  /\ entry.transactionId = "tx1"
  /\ entry.points = PNumber(15)
  /\ store = <<entry>>
  /\ Len(ocr) = 1 /\ ~ocr[1].on
  /\ Len(pts) = 1 /\ ~pts[1].on /\ pts[1].live = 0

\* an image as it may be persisted: a data URL or null
Durable(image) == image.k \in {"data", "null"}

\* C26: saving keeps every record of the store, with its id, and writes its
\* image as a data URL of the same blob or as null, null when the object URL
\* does not resolve; loading keeps every record of the snapshot, with its id,
\* and no loaded record has an object URL as image.
C26_PersistenceRoundTrip ==
  [][/\ SaveSnapshot =>
          /\ Len(snapshot') = Len(store)
          /\ \A i \in DOMAIN store :
               /\ snapshot'[i].id = store[i].id
               /\ Durable(snapshot'[i].image)
               /\ snapshot'[i].image.k = "data" =>
                    snapshot'[i].image.u = store[i].image.u
               /\ (store[i].image.k = "blob" /\ store[i].image.u \notin live)
                    => snapshot'[i].image = INull
     /\ LoadSnapshot =>
          /\ Len(store') = Len(snapshot)
          /\ \A i \in DOMAIN snapshot :
               /\ store'[i].id = snapshot[i].id
               /\ Durable(store'[i].image)]_vars

\* two entries were saved and loaded again: the image of one was resolved,
\* the image of the other was not
C26_Witness ==
  /\ Len(store) = 2
  /\ store[1].image.k = "data"
  /\ store[2].image = INull
  /\ live = {}

\* C27: the callbacks of one OCR polling run start points generation at
\* most once: a callback starts it only if no callback of the same run has
\* started it before.
C27_OneGenerationPerRun ==
  [][\A r \in DOMAIN ocr :
       (OcrProbeResolve(r) /\ gen' > gen) => ocr[r].gens = 0]_vars

\* the polling runs whose interval is active
ActiveOcrRuns == {r \in DOMAIN ocr : ocr[r].on}
ActivePointsRuns == {p \in DOMAIN pts : pts[p].on}

\* C28: at most one OCR polling interval and at most one points polling
\* interval is active on the entry.
C28_OneLoopPerStage ==
  /\ Cardinality(ActiveOcrRuns) <= 1
  /\ Cardinality(ActivePointsRuns) <= 1

\* C29: the object URL a record of the store has as image has not been
\* revoked.
C29_EntryImagesResolvable ==
  \A i \in DOMAIN store :
    store[i].image.k = "blob" => store[i].image.u \in live

\* C30: the blob convertToJpg returns is no larger than the limit of the
\* size check of handleFiles, and the loop has made at most 8 encode attempts.
C30_ConvertedFits ==
  conv.phase = "returned" =>
    /\ conv.size <= BYTES_5MB
    /\ conv.attempts <= maxAttempts

====
